---- MODULE Spec2Model ----
(***************************************************************************)
(* Weekly post lifecycle and publish scheduler of src/bot.py.              *)
(*                                                                         *)
(* One tenant, one project and one week are modelled.  Text fields are     *)
(* represented by their length (0 = NULL or empty, both falsy in Python),  *)
(* the hashtag field by its number of whitespace-separated tokens, and     *)
(* instants by minutes (UTC).  The job queue holds one-shot jobs; a job    *)
(* leaves the queue when it fires.  The transport call of do_publish_post  *)
(* is a suspension point, so a delivery attempt is two steps: the start    *)
(* (publish_job or publish_now, through do_publish_start) and the          *)
(* completion (send_ok or send_fail).  The variable last records the       *)
(* operation of the latest step and its answer; ops counts the operator's  *)
(* requests.  The functions that take no part of the bot's state are       *)
(* applied to arguments held in arg, with the value returned held in ret.  *)
(***************************************************************************)
EXTENDS Integers, Sequences, FiniteSets, TLC

\* ---------------------------------------------------------------- bounds
MaxOps == 3          \* operator requests handled in one behaviour
MaxLog == 3          \* delivery attempts that reach the transport
MaxJobs == 17        \* jobs ever created with run_once
MaxTime == 1000      \* clock horizon, minutes

\* ------------------------------------------------------ program constants
NPosts == 7
TitleMax == 60
LeadMax == 140
TagsMax == 10
TitleCut == 200
LeadCut == 400
ErrCut == 500
RetryDelay == 3
Day == 1440
LocalPublishMinute == 600
TzOffset == 180
DraftTitleLen == 24
DraftLeadLen == 36
DraftBodyLen == 75
DraftTagCount == 3

NULL == -1
Tenant == 1
ProjectPk == 1
NoWeek == [label |-> "", start_date |-> NULL, status |-> "none"]

\* the tables next to posts and publish_log, empty
NoDb == [users |-> {}, memberships |-> {}, projects |-> {}, weeks |-> {}, user_ctx |-> {}]

VARIABLES week, posts, channel, jobs, nextJob, cancelled, inflight, log, now, ops, last,
          arg, ret, db

vars == <<week, posts, channel, jobs, nextJob, cancelled, inflight, log, now, ops, last,
          arg, ret, db>>

\* ------------------------------------------------------------ pure helpers
Min(a, b) == IF a < b THEN a ELSE b

\* A time zone is its standard offset, its summer offset and the wall-clock
\* minutes [from, to) in which the summer offset is valid; DEFAULT_TZ is
\* Europe/Moscow, a fixed offset.
Zone(std, dst, from, to) == [std |-> std, dst |-> dst, from |-> from, to |-> to]
DEFAULT_TZ == Zone(TzOffset, TzOffset, 0, 0)

\* ZoneInfo(tz).utcoffset of a wall-clock minute
utcoffset(tz, wall) == IF tz.from <= wall /\ wall < tz.to THEN tz.dst ELSE tz.std

\* an aware wall-clock minute converted with .astimezone(ZoneInfo("UTC"))
astimezone_utc(tz, wall) == wall - utcoffset(tz, wall)

\* datetime.combine(d, t, tzinfo).astimezone(UTC) in the project's zone:
\* local minutes since the model's epoch to UTC minutes.
local_to_utc(localMinute) == astimezone_utc(DEFAULT_TZ, localMinute)

\* the first instant converted once and the others counted in UTC days
make_default_schedule_utc_days(local_start, tz) ==
    [i \in 1..NPosts |->
        astimezone_utc(tz, local_start * Day + LocalPublishMinute) + (i - 1) * Day]

\* seven instants, one per day from the local start date: base + i days is
\* wall-clock arithmetic, and each sum is converted to UTC on its own
make_default_schedule(local_start, tz) ==
    [i \in 1..NPosts |->
        astimezone_utc(tz, (local_start * Day + LocalPublishMinute) + (i - 1) * Day)]

\* job names f"{tenant}-{project}-pub-{post}" and f"...-retry-{post}"
JobName(kind, post_id) == <<Tenant, ProjectPk, kind, post_id>>

DraftPost(i, sched) ==
    [post_no |-> i, status |-> "draft", title |-> DraftTitleLen, lead |-> DraftLeadLen,
     body |-> DraftBodyLen, cta_text |-> 0, cta_url |-> 0, tags |-> DraftTagCount,
     cover_url |-> 0, publish_at |-> sched[i], message_id |-> NULL, error_note |-> NULL]

\* the checks without the one on the call to action
validate_post_nocta(p) ==
    (IF p.title = 0 \/ p.title > TitleMax THEN <<"title">> ELSE <<>>)
    \o (IF p.lead = 0 \/ p.lead > LeadMax THEN <<"lead">> ELSE <<>>)
    \o (IF p.body = 0 THEN <<"body">> ELSE <<>>)
    \o (IF p.tags > 0 /\ p.tags > TagsMax THEN <<"tags">> ELSE <<>>)
    \o (IF p.cover_url = 0 THEN <<"cover">> ELSE <<>>)
    \o (IF p.publish_at = NULL THEN <<"publish_at">> ELSE <<>>)

validate_post(p) ==
    (IF p.title = 0 \/ p.title > TitleMax THEN <<"title">> ELSE <<>>)
    \o (IF p.lead = 0 \/ p.lead > LeadMax THEN <<"lead">> ELSE <<>>)
    \o (IF p.body = 0 THEN <<"body">> ELSE <<>>)
    \o (IF p.cta_text > 0 /\ p.cta_url = 0 THEN <<"cta">> ELSE <<>>)
    \o (IF p.tags > 0 /\ p.tags > TagsMax THEN <<"tags">> ELSE <<>>)
    \o (IF p.cover_url = 0 THEN <<"cover">> ELSE <<>>)
    \o (IF p.publish_at = NULL THEN <<"publish_at">> ELSE <<>>)

Ev(op, post, res, job, msg) == [op |-> op, post |-> post, res |-> res, job |-> job, msg |-> msg]

\* PTB handles updates one at a time: no handler starts while the
\* publish-now handler is suspended in its transport call.
HandlerIdle == \A a \in inflight : a.src # "now"

PubJobs(js, post_id) == {j \in js : j.name = JobName("pub", post_id)}
RetryJobs(js, post_id) == {j \in js : j.name = JobName("retry", post_id)}

\* ------------------------------------------------------------------- Init
StartDay == 0
StartNow == 200

ReadyPosts(missing) ==
    [i \in 1..NPosts |->
        [DraftPost(i, make_default_schedule(StartDay, DEFAULT_TZ)) EXCEPT
            !.cover_url = IF i \in missing THEN 0 ELSE 1]]

\* The database persists across restarts, the job queue does not: the bot
\* starts either on an empty project or on a week whose drafts were already
\* generated and given covers, with nothing scheduled.
Init ==
    /\ \/ week = NoWeek /\ posts = <<>>
       \/ /\ week = [label |-> "W", start_date |-> StartDay, status |-> "draft"]
          /\ posts \in {ReadyPosts({}), ReadyPosts({1})}
    /\ channel \in {NULL, 1}
    /\ jobs = {}
    /\ nextJob = 1
    /\ cancelled = {}
    /\ inflight = {}
    /\ log = <<>>
    /\ now = StartNow
    /\ ops = 0
    /\ last = Ev("init", 0, "", 0, NULL)
    /\ arg = <<>>
    /\ ret = <<>>
    /\ db = NoDb

\* ------------------------------------------------------------ week flows
week_create ==
    /\ HandlerIdle /\ ops < MaxOps
    /\ week' = IF week = NoWeek
               THEN [label |-> "W", start_date |-> StartDay, status |-> "draft"]
               ELSE week
    /\ ops' = ops + 1
    /\ last' = Ev("week_create", 0, "ok", 0, NULL)
    /\ UNCHANGED <<posts, channel, jobs, nextJob, cancelled, inflight, log, now, arg, ret, db>>

\* drafts written whatever the week already holds
generate_week_drafts_always(ps, startDay) ==
    [i \in 1..NPosts |-> DraftPost(i, make_default_schedule(startDay, DEFAULT_TZ))]

\* seven more drafts inserted whatever the week already holds
generate_week_drafts_append(ps, startDay) ==
    ps \o [i \in 1..NPosts |-> DraftPost(i, make_default_schedule(startDay, DEFAULT_TZ))]

\* drafts that come with a cover
generate_week_drafts_covered(ps, startDay) ==
    IF Len(ps) = 0
    THEN [i \in 1..NPosts |->
            [DraftPost(i, make_default_schedule(startDay, DEFAULT_TZ)) EXCEPT !.cover_url = 1]]
    ELSE ps

generate_week_drafts(ps, startDay) ==
    IF Len(ps) = 0
    THEN [i \in 1..NPosts |-> DraftPost(i, make_default_schedule(startDay, DEFAULT_TZ))]
    ELSE ps

week_gen ==
    /\ HandlerIdle /\ ops < MaxOps
    /\ week # NoWeek
    /\ posts' = generate_week_drafts(posts, week.start_date)
    /\ ops' = ops + 1
    /\ last' = Ev("week_gen", 0, "ok", 0, NULL)
    /\ UNCHANGED <<week, channel, jobs, nextJob, cancelled, inflight, log, now, arg, ret, db>>

\* one row of the loop: skipped without an instant, else dt + timedelta(days=1)
shift_day(p) ==
    IF p.publish_at = NULL THEN p ELSE [p EXCEPT !.publish_at = @ + Day]

\* A scheduler state is the part of the job queue a schedule call touches.
Sched(js, nj, cn) == [jobs |-> js, nextJob |-> nj, cancelled |-> cn]

Job(id, kind, post_id, when) ==
    [id |-> id, name |-> JobName(kind, post_id), post |-> post_id, when |-> when]

schedule_post_job_nocancel(st, post_id, when_utc) ==
    Sched(st.jobs \cup {Job(st.nextJob, "pub", post_id, when_utc)},
          st.nextJob + 1, st.cancelled)

\* schedule_removal of every job of that name, then run_once
schedule_post_job(st, post_id, when_utc) ==
    LET old == PubJobs(st.jobs, post_id)
    IN Sched((st.jobs \ old) \cup {Job(st.nextJob, "pub", post_id, when_utc)},
             st.nextJob + 1,
             st.cancelled \cup old)

RECURSIVE schedule_from(_, _, _)
schedule_from(ps, st, i) ==
    IF i > Len(ps) THEN st
    ELSE IF ps[i].status # "approved" \/ ps[i].publish_at = NULL
         THEN schedule_from(ps, st, i + 1)
         ELSE schedule_from(ps, schedule_post_job(st, i, ps[i].publish_at), i + 1)

\* posts of the week in post_no order; the post's id is its number
schedule_week_posts(ps, st) == schedule_from(ps, st, 1)

\* the shift followed by a schedule call for the week
week_shift_day_reschedule ==
    /\ HandlerIdle /\ ops < MaxOps
    /\ week # NoWeek
    /\ nextJob + NPosts + Cardinality(inflight) <= MaxJobs + 1
    /\ posts' = [i \in 1..Len(posts) |-> shift_day(posts[i])]
    /\ LET st == schedule_week_posts(posts', Sched(jobs, nextJob, cancelled))
       IN /\ jobs' = st.jobs
          /\ nextJob' = st.nextJob
          /\ cancelled' = st.cancelled
    /\ ops' = ops + 1
    /\ last' = Ev("week_shift_day", 0, "ok", 0, NULL)
    /\ UNCHANGED <<week, channel, inflight, log, now, arg, ret, db>>

\* UPDATE posts SET publish_at = publish_at + 1 day for non-null instants;
\* posts holds the rows of the current project and week
week_shift_day ==
    /\ HandlerIdle /\ ops < MaxOps
    /\ week # NoWeek
    /\ posts' = [i \in 1..Len(posts) |-> shift_day(posts[i])]
    /\ ops' = ops + 1
    /\ last' = Ev("week_shift_day", 0, "ok", 0, NULL)
    /\ UNCHANGED <<week, channel, jobs, nextJob, cancelled, inflight, log, now, arg, ret, db>>

problems_from_second(ps) == {i \in 2..Len(ps) : validate_post(ps[i]) # <<>>}

\* post numbers with at least one issue
problems(ps) == {i \in 1..Len(ps) : validate_post(ps[i]) # <<>>}

\* len(posts) < 7 evaluates week_menu_kб (Cyrillic б), an undefined name:
\* the handler raises NameError before it answers.
week_approve ==
    /\ HandlerIdle /\ ops < MaxOps
    /\ week # NoWeek
    /\ nextJob + NPosts + Cardinality(inflight) <= MaxJobs + 1
    /\ ops' = ops + 1
    /\ IF Len(posts) < NPosts
       THEN /\ last' = Ev("week_approve", 0, "NameError", 0, NULL)
            /\ UNCHANGED <<posts, jobs, nextJob, cancelled>>
       ELSE IF problems(posts) # {}
       THEN /\ last' = Ev("week_approve", 0, "defects", 0, NULL)
            /\ UNCHANGED <<posts, jobs, nextJob, cancelled>>
       ELSE LET ps == [i \in 1..Len(posts) |-> [posts[i] EXCEPT !.status = "approved"]]
                st == schedule_week_posts(ps, Sched(jobs, nextJob, cancelled))
            IN /\ posts' = ps
               /\ jobs' = st.jobs
               /\ nextJob' = st.nextJob
               /\ cancelled' = st.cancelled
               /\ last' = Ev("week_approve", 0, "approved", 0, NULL)
    /\ UNCHANGED <<week, channel, inflight, log, now, arg, ret, db>>

\* ------------------------------------------------------------- post edits
ManualStatuses == {"draft", "review", "approved"}

set_status(ps, post_no, status) == [ps EXCEPT ![post_no].status = status]

set_post_status(post_no, status) ==
    /\ HandlerIdle /\ ops < MaxOps
    /\ post_no \in 1..Len(posts)
    /\ posts' = set_status(posts, post_no, status)
    /\ ops' = ops + 1
    /\ last' = Ev("set_post_status", post_no, status, 0, NULL)
    /\ UNCHANGED <<week, channel, jobs, nextJob, cancelled, inflight, log, now, arg, ret, db>>

\* The text of a date/time edit: its number of non-empty lines, the day its
\* first line names (NULL when date.fromisoformat raises), the two integers
\* of its second line (<<>> when the split or int() raises), and whether
\* ZoneInfo finds the project's zone.
DtText(lines, day, hhmm, zone_found) ==
    [lines |-> lines, date |-> day, time |-> hhmm, zone_found |-> zone_found]

\* time(int(hh), int(mm)) as minutes of the day; NULL stands for the raise
parse_time_hhmm(t) ==
    IF t = <<>> THEN NULL
    ELSE IF t[1] \notin 0..23 \/ t[2] \notin 0..59 THEN NULL
    ELSE t[1] * 60 + t[2]

\* how the dt branch ends: the two-lines message, an exception, or the UPDATE
dt_outcome(v) ==
    IF v.lines < 2 THEN "rejected"
    ELSE IF v.date = NULL \/ parse_time_hhmm(v.time) = NULL \/ ~v.zone_found THEN "raised"
    ELSE "dt"

\* datetime.combine(d, t) as a local minute
dt_local(v) == v.date * Day + parse_time_hhmm(v.time)

\* inputs of the edit conversation, as <<field, value>>; a cta value is
\* <<text length, url length>>, a dt value a DtText
EditInputs ==
    {<<"title", 61>>, <<"cta", <<5, 0>>>>, <<"cover", 1>>,
     <<"dt", DtText(2, 0, <<5, 0>>, TRUE)>>,
     <<"dt", DtText(1, 0, <<>>, TRUE)>>,
     <<"dt", DtText(2, NULL, <<5, 0>>, TRUE)>>,
     <<"dt", DtText(2, 0, <<>>, TRUE)>>,
     <<"dt", DtText(2, 0, <<24, 0>>, TRUE)>>,
     <<"dt", DtText(2, 0, <<5, 0>>, FALSE)>>}

\* the dt branch writing what it could parse before it raises
edit_field_partial(p, field, v) ==
    CASE field = "title" -> [p EXCEPT !.title = Min(v, TitleCut)]
      [] field = "lead" -> [p EXCEPT !.lead = Min(v, LeadCut)]
      [] field = "body" -> [p EXCEPT !.body = v]
      [] field = "tags" -> [p EXCEPT !.tags = v]
      [] field = "cta" -> [p EXCEPT !.cta_text = v[1], !.cta_url = v[2]]
      [] field = "cover" -> [p EXCEPT !.cover_url = v]
      [] field = "dt" -> IF v.lines < 2 THEN p
                         ELSE IF v.date = NULL THEN [p EXCEPT !.publish_at = NULL]
                         ELSE IF parse_time_hhmm(v.time) = NULL
                         THEN [p EXCEPT !.publish_at = local_to_utc(v.date * Day)]
                         ELSE [p EXCEPT !.publish_at = local_to_utc(dt_local(v))]

edit_field(p, field, v) ==
    CASE field = "title" -> [p EXCEPT !.title = Min(v, TitleCut)]
      [] field = "lead" -> [p EXCEPT !.lead = Min(v, LeadCut)]
      [] field = "body" -> [p EXCEPT !.body = v]
      [] field = "tags" -> [p EXCEPT !.tags = v]
      [] field = "cta" -> [p EXCEPT !.cta_text = v[1], !.cta_url = v[2]]
      [] field = "cover" -> [p EXCEPT !.cover_url = v]
      [] field = "dt" -> IF dt_outcome(v) # "dt" THEN p
                         ELSE [p EXCEPT !.publish_at = local_to_utc(dt_local(v))]

on_edit_value(post_no, field, v) ==
    /\ HandlerIdle /\ ops < MaxOps
    /\ post_no \in 1..Len(posts)
    /\ posts' = [posts EXCEPT ![post_no] = edit_field(@, field, v)]
    /\ ops' = ops + 1
    /\ last' = Ev("on_edit_value", post_no,
                  IF field = "dt" THEN dt_outcome(v) ELSE field, 0, NULL)
    /\ UNCHANGED <<week, channel, jobs, nextJob, cancelled, inflight, log, now, arg, ret, db>>

\* set_project_channel, reached from on_bind_input
on_bind_input ==
    /\ HandlerIdle /\ ops < MaxOps
    /\ channel' = 1
    /\ ops' = ops + 1
    /\ last' = Ev("on_bind_input", 0, "ok", 0, NULL)
    /\ UNCHANGED <<week, posts, jobs, nextJob, cancelled, inflight, log, now, arg, ret, db>>

\* ------------------------------------------------------------- publishing
Attempt(post_id, src, jid) == [post |-> post_id, src |-> src, job |-> jid]

do_publish_start_nochannel(infl, ps, ch, post_id, src, jid) ==
    IF post_id \notin 1..Len(ps) THEN infl
    ELSE infl \cup {Attempt(post_id, src, jid)}

\* do_publish_post up to the transport call: the attempts in flight after it
do_publish_start(infl, ps, ch, post_id, src, jid) ==
    IF post_id \notin 1..Len(ps) THEN infl
    ELSE IF ch = NULL THEN infl
    ELSE infl \cup {Attempt(post_id, src, jid)}

StartResult(infl2) == IF infl2 = inflight THEN "noop" ELSE "sending"

\* an attempt that reaches the transport needs room in the bounded log and
\* an unused job id for its possible retry
AttemptRoom ==
    /\ Len(log) + Cardinality(inflight) < MaxLog
    /\ nextJob + Cardinality(inflight) < MaxJobs

\* without a channel the attempt never reaches the transport
CanStart == (channel = NULL) \/ AttemptRoom

publish_now(post_no) ==
    /\ HandlerIdle /\ ops < MaxOps
    /\ post_no \in 1..Len(posts)
    /\ CanStart
    /\ inflight' = do_publish_start(inflight, posts, channel, post_no, "now", 0)
    /\ ops' = ops + 1
    /\ last' = Ev("publish_now", post_no, StartResult(inflight'), 0, NULL)
    /\ UNCHANGED <<week, posts, channel, jobs, nextJob, cancelled, log, now, arg, ret, db>>

JobKind(j) == j.name[3]

\* a due one-shot job leaves the queue and runs publish_job
publish_job(j) ==
    /\ j \in jobs
    /\ j.when = now
    /\ CanStart
    /\ jobs' = jobs \ {j}
    /\ inflight' = do_publish_start(inflight, posts, channel, j.post, JobKind(j), j.id)
    /\ last' = Ev("publish_job", j.post, StartResult(inflight'), j.id, NULL)
    /\ UNCHANGED <<week, posts, channel, nextJob, cancelled, log, now, ops, arg, ret, db>>

\* run_once with an instant that has passed: the job queue's scheduler
\* (APScheduler, misfire grace time of one second) finds the run time missed
\* and discards the job without running it
misfire_job(j) ==
    /\ j \in jobs
    /\ j.when < now
    /\ jobs' = jobs \ {j}
    /\ last' = Ev("misfire", j.post, "missed", j.id, NULL)
    /\ UNCHANGED <<week, posts, channel, nextJob, cancelled, inflight, log, now, ops, arg, ret, db>>

\* message ids of a channel count up with every message delivered to it
NextMsgId == 101 + Cardinality({k \in 1..Len(log) : log[k].result = "OK"})
ErrLens == {40, 501}

LogEntry(post_id, result, message_id, error_note) ==
    [tenant_id |-> Tenant, project_id |-> ProjectPk, post_id |-> post_id, ts |-> now,
     result |-> result, message_id |-> message_id, error_note |-> error_note]

mark_published_nomsg(ps, post_id, msg) ==
    [ps EXCEPT ![post_id].status = "published"]

\* UPDATE posts SET status='published', message_id=? WHERE id=?
mark_published(ps, post_id, msg) ==
    [ps EXCEPT ![post_id].status = "published", ![post_id].message_id = msg]

\* the transport returned msg: UPDATE posts ... INSERT INTO publish_log
send_ok(a, msg) ==
    /\ a \in inflight
    /\ inflight' = inflight \ {a}
    /\ posts' = mark_published(posts, a.post, msg)
    /\ log' = Append(log, LogEntry(a.post, "OK", msg, NULL))
    /\ last' = Ev("send_ok", a.post, a.src, a.job, msg)
    /\ UNCHANGED <<week, channel, jobs, nextJob, cancelled, now, ops, arg, ret, db>>

err_note_uncut(errLen) == errLen

\* str(e)[:500]
err_note(errLen) == Min(errLen, ErrCut)

mark_failed_requeue(ps, post_id, note) ==
    [ps EXCEPT ![post_id].status = "approved", ![post_id].error_note = note]

\* the failure recorded on every post of the week
mark_failed_all(ps, post_id, note) ==
    [i \in 1..Len(ps) |-> [ps[i] EXCEPT !.status = "failed", !.error_note = note]]

\* UPDATE posts SET status='failed', error_note=? WHERE id=?
mark_failed(ps, post_id, note) ==
    [ps EXCEPT ![post_id].status = "failed", ![post_id].error_note = note]

\* the failure path writing over the newest log row instead of inserting one
send_fail_overwrite(a, errLen) ==
    /\ a \in inflight
    /\ inflight' = inflight \ {a}
    /\ posts' = mark_failed(posts, a.post, err_note(errLen))
    /\ log' = IF log = <<>>
              THEN <<LogEntry(a.post, "FAILED", NULL, err_note(errLen))>>
              ELSE [log EXCEPT ![Len(log)] = LogEntry(a.post, "FAILED", NULL, err_note(errLen))]
    /\ jobs' = jobs \cup {Job(nextJob, "retry", a.post, now + RetryDelay)}
    /\ nextJob' = nextJob + 1
    /\ last' = Ev("send_fail", a.post, a.src, a.job, NULL)
    /\ UNCHANGED <<week, channel, cancelled, now, ops, arg, ret, db>>

\* the transport raised: the except branch, ending with run_once for the retry
send_fail(a, errLen) ==
    /\ a \in inflight
    /\ inflight' = inflight \ {a}
    /\ posts' = mark_failed(posts, a.post, err_note(errLen))
    /\ log' = Append(log, LogEntry(a.post, "FAILED", NULL, err_note(errLen)))
    /\ jobs' = jobs \cup {Job(nextJob, "retry", a.post, now + RetryDelay)}
    /\ nextJob' = nextJob + 1
    /\ last' = Ev("send_fail", a.post, a.src, a.job, NULL)
    /\ UNCHANGED <<week, channel, cancelled, now, ops, arg, ret, db>>

\* ------------------------------------------------------------------ clock
MinWhen(js) == CHOOSE t \in {j.when : j \in js} : \A j \in js : t <= j.when

\* time passes up to the next due job; a job that is due runs (or is
\* discarded) before the clock moves on
advance_time ==
    /\ \A j \in jobs : j.when > now
    /\ jobs # {}
    /\ now' = MinWhen(jobs)
    /\ now' <= MaxTime
    /\ last' = Ev("advance_time", 0, "", 0, NULL)
    /\ UNCHANGED <<week, posts, channel, jobs, nextJob, cancelled, inflight, log, ops, arg, ret, db>>

\* post numbers the operator's requests address
ManualPosts == {1}

Next ==
    \/ week_create
    \/ week_gen
    \/ week_shift_day
    \/ week_approve
    \/ \E n \in ManualPosts, st \in ManualStatuses : set_post_status(n, st)
    \/ \E n \in ManualPosts, e \in EditInputs : on_edit_value(n, e[1], e[2])
    \/ on_bind_input
    \/ \E n \in ManualPosts : publish_now(n)
    \/ \E j \in jobs : publish_job(j)
    \/ \E j \in jobs : misfire_job(j)
    \/ \E a \in inflight : send_ok(a, NextMsgId)
    \/ \E a \in inflight, e \in ErrLens : send_fail(a, e)
    \/ advance_time

Spec == Init /\ [][Next]_vars

\* ------------------------------------------------- functions on their own
\* The week shift as the statement it runs on the posts table: the rows of
\* one project and week label are selected, the others are not read.
week_shift_rows_anyweek(rows, project_pk, week_label) ==
    [k \in 1..Len(rows) |->
        IF rows[k].project_id = project_pk THEN shift_day(rows[k]) ELSE rows[k]]

week_shift_rows(rows, project_pk, week_label) ==
    [k \in 1..Len(rows) |->
        IF rows[k].project_id = project_pk /\ rows[k].week_label = week_label
        THEN shift_day(rows[k])
        ELSE rows[k]]

\* proleptic Gregorian calendar, as datetime.date counts days
IsLeap(y) == y % 4 = 0 /\ (y % 100 # 0 \/ y % 400 = 0)
DaysInMonth(y, m) ==
    IF m = 2 THEN (IF IsLeap(y) THEN 29 ELSE 28)
    ELSE IF m \in {4, 6, 9, 11} THEN 30 ELSE 31
DaysBeforeYear(y) == (y - 1) * 365 + (y - 1) \div 4 - (y - 1) \div 100 + (y - 1) \div 400
RECURSIVE DaysBeforeMonth(_, _)
DaysBeforeMonth(y, m) ==
    IF m = 1 THEN 0 ELSE DaysBeforeMonth(y, m - 1) + DaysInMonth(y, m - 1)
ymd2ord(y, m, d) == DaysBeforeYear(y) + DaysBeforeMonth(y, m) + d

\* the Monday of the week that holds the year's first Thursday
isoweek1monday(year) ==
    LET firstday == ymd2ord(year, 1, 1)
        firstweekday == (firstday + 6) % 7
        week1monday == firstday - firstweekday
    IN IF firstweekday > 3 THEN week1monday + 7 ELSE week1monday

\* date.isocalendar(): <<ISO year, ISO week>>
isocalendar(dt) ==
    LET year == dt.y
        today == ymd2ord(dt.y, dt.m, dt.d)
        wk == (today - isoweek1monday(year)) \div 7
    IN IF wk < 0
       THEN <<year - 1, (today - isoweek1monday(year - 1)) \div 7 + 1>>
       ELSE IF wk >= 52 /\ today >= isoweek1monday(year + 1)
       THEN <<year + 1, 1>>
       ELSE <<year, wk + 1>>

DigitChar(n) == <<"0", "1", "2", "3", "4", "5", "6", "7", "8", "9">>[n + 1]

\* str(n) for n >= 0, as a sequence of characters
RECURSIVE Digits(_)
Digits(n) == IF n < 10 THEN <<DigitChar(n)>> ELSE Digits(n \div 10) \o <<DigitChar(n % 10)>>

\* format(n, "02d")
Fmt02d(n) == IF n < 10 THEN <<"0">> \o Digits(n) ELSE Digits(n)

\* the label written with the calendar year of the date
week_label_from_date_calyear(dt) ==
    <<"W">> \o Fmt02d(isocalendar(dt)[2]) \o <<"-">> \o Digits(dt.y)

\* f"W{wno:02d}-{isoy}"
week_label_from_date(dt) ==
    <<"W">> \o Fmt02d(isocalendar(dt)[2]) \o <<"-">> \o Digits(isocalendar(dt)[1])

\* date.isoformat(): four digits of the year (1000..9999 here), month, day
isoformat(dt) == Digits(dt.y) \o <<"-">> \o Fmt02d(dt.m) \o <<"-">> \o Fmt02d(dt.d)

\* a row of the weeks table; id, notes and the two timestamps are left out
WeekRow(tenant_id, project_pk, wl, start_date, status) ==
    [tenant_id |-> tenant_id, project_id |-> project_pk, week_label |-> wl,
     start_date |-> start_date, status |-> status]

\* the row looked up by tenant, project and start date instead of the label
upsert_week_by_start_date(weeks, tenant_id, project_pk, start_date) ==
    LET wl == week_label_from_date(start_date)
        found == {r \in weeks : /\ r.tenant_id = tenant_id
                                /\ r.project_id = project_pk
                                /\ r.start_date = isoformat(start_date)}
        fresh == WeekRow(tenant_id, project_pk, wl, isoformat(start_date), "draft")
    IN IF found = {}
       THEN [weeks |-> weeks \cup {fresh}, row |-> fresh]
       ELSE [weeks |-> weeks, row |-> CHOOSE r \in found : TRUE]

\* upsert_week on the weeks table: the table after the call and the row returned
upsert_week(weeks, tenant_id, project_pk, start_date) ==
    LET wl == week_label_from_date(start_date)
        found == {r \in weeks : /\ r.tenant_id = tenant_id
                                /\ r.project_id = project_pk
                                /\ r.week_label = wl}
        fresh == WeekRow(tenant_id, project_pk, wl, isoformat(start_date), "draft")
    IN IF found = {}
       THEN [weeks |-> weeks \cup {fresh}, row |-> fresh]
       ELSE [weeks |-> weeks, row |-> CHOOSE r \in found : TRUE]

\* the weeks table after a sequence of upsert_week calls on an empty table
RECURSIVE WeeksAfter(_)
WeeksAfter(calls) ==
    IF calls = <<>> THEN {}
    ELSE LET c == calls[Len(calls)]
         IN upsert_week(WeeksAfter(SubSeq(calls, 1, Len(calls) - 1)),
                        c.tenant_id, c.project_pk, c.start_date).weeks

\* ---- arguments
ShiftRows == 3       \* rows of the posts table
MaxStart == 3        \* latest local start date of a schedule, in days
LabelYears == 2024..2026
ZoneDays == 0..9     \* days on which a zone changes its offset
MaxEarlier == 2      \* upsert_week calls before the one looked at

\* posts rows of two projects and two weeks; publish_at is a nullable column
Row(pr, wl, at) == [project_id |-> pr, week_label |-> wl, publish_at |-> at]
RowValues == {Row(pr, wl, at) : pr \in {1, 2}, wl \in {"W37", "W38"}, at \in {NULL, 420}}
Dates == {[y |-> y, m |-> m, d |-> d] :
             y \in LabelYears, m \in 1..12, d \in 1..31}
ValidDates == {dt \in Dates : dt.d <= DaysInMonth(dt.y, dt.m)}

\* zones with summer time (offsets of Europe/Berlin) that starts or ends at
\* 03:00 wall-clock time of one of ZoneDays
SummerFrom(day) == Zone(60, 120, day * Day + 180, (day + 200) * Day)
SummerUntil(day) == Zone(60, 120, (day - 200) * Day, day * Day + 180)
Zones == {DEFAULT_TZ} \cup {SummerFrom(dy) : dy \in ZoneDays}
                      \cup {SummerUntil(dy) : dy \in ZoneDays}

PostValues ==
    [status : {"draft"}, title : {0, 1, 60, 61}, lead : {0, 140, 141}, body : {0, 75},
     cta_text : {0, 5}, cta_url : {0, 20}, tags : {0, 10, 11}, cover_url : {0, 1},
     publish_at : {NULL, 420}, message_id : {NULL}, error_note : {NULL}]

\* two projects of two tenants, and start dates around two turns of the year
ProjectKeys == {<<1, 1>>, <<2, 2>>}
WeekDates ==
    {[y |-> 2024, m |-> 12, d |-> 29], [y |-> 2024, m |-> 12, d |-> 30],
     [y |-> 2025, m |-> 1, d |-> 1], [y |-> 2025, m |-> 1, d |-> 5],
     [y |-> 2025, m |-> 1, d |-> 6], [y |-> 2026, m |-> 1, d |-> 1]}
WeekCalls ==
    {[tenant_id |-> k[1], project_pk |-> k[2], start_date |-> dt] :
        k \in ProjectKeys, dt \in WeekDates}
EarlierCalls == UNION {[1..n -> WeekCalls] : n \in 0..MaxEarlier}

FnArgs ==
    {[fn |-> "week_shift_day", rows |-> r, project_pk |-> 1, week_label |-> "W37"] :
        r \in [1..ShiftRows -> RowValues]}
    \cup {[fn |-> "week_label_from_date", d |-> dt] : dt \in ValidDates}
    \cup {[fn |-> "make_default_schedule", local_start |-> st, tz |-> tz] :
            st \in 0..MaxStart, tz \in Zones}
    \cup {[fn |-> "validate_post", p |-> pv] : pv \in PostValues}
    \cup {[fn |-> "upsert_week", earlier |-> e, tenant_id |-> c.tenant_id,
            project_pk |-> c.project_pk, start_date |-> c.start_date] :
            e \in EarlierCalls, c \in WeekCalls}

FnInit ==
    /\ week = NoWeek
    /\ posts = <<>>
    /\ channel = NULL
    /\ jobs = {}
    /\ nextJob = 1
    /\ cancelled = {}
    /\ inflight = {}
    /\ log = <<>>
    /\ now = StartNow
    /\ ops = 0
    /\ last = Ev("init", 0, "", 0, NULL)
    /\ arg \in FnArgs
    /\ ret = <<>>
    /\ db = NoDb

\* one application of the function arg names; ret is its value
Apply(fn, value) ==
    /\ last.op = "init"
    /\ arg.fn = fn
    /\ ret' = value
    /\ last' = Ev(fn, 0, "returned", 0, NULL)
    /\ UNCHANGED <<week, posts, channel, jobs, nextJob, cancelled, inflight, log, now, ops, arg, db>>

call_week_shift_day ==
    /\ arg.fn = "week_shift_day"
    /\ Apply("week_shift_day", week_shift_rows(arg.rows, arg.project_pk, arg.week_label))

call_week_label_from_date ==
    /\ arg.fn = "week_label_from_date"
    /\ Apply("week_label_from_date", week_label_from_date(arg.d))

call_make_default_schedule ==
    /\ arg.fn = "make_default_schedule"
    /\ Apply("make_default_schedule", make_default_schedule(arg.local_start, arg.tz))

call_validate_post ==
    /\ arg.fn = "validate_post"
    /\ Apply("validate_post", validate_post(arg.p))

call_upsert_week ==
    /\ arg.fn = "upsert_week"
    /\ Apply("upsert_week", upsert_week(WeeksAfter(arg.earlier), arg.tenant_id,
                                       arg.project_pk, arg.start_date))

FnNext ==
    \/ call_week_shift_day
    \/ call_week_label_from_date
    \/ call_make_default_schedule
    \/ call_validate_post
    \/ call_upsert_week

FnSpec == FnInit /\ [][FnNext]_vars


\* ------------------------------------------------ deliveries of one week
\* The week after the operator has moved one post other than the first to
\* 08:00 local of the first day and approved the week, with a bound channel;
\* the operator makes no further request.
DeliveryPosts(k) ==
    LET ps == [ReadyPosts({}) EXCEPT ![k] = edit_field(@, "dt", DtText(2, 0, <<8, 0>>, TRUE))]
    IN [i \in 1..NPosts |-> [ps[i] EXCEPT !.status = "approved"]]

DeliveryInit ==
    /\ week = [label |-> "W", start_date |-> StartDay, status |-> "draft"]
    /\ \E k \in 2..NPosts :
          /\ posts = DeliveryPosts(k)
          /\ jobs = schedule_week_posts(DeliveryPosts(k), Sched({}, 1, {})).jobs
    /\ nextJob = NPosts + 1
    /\ cancelled = {}
    /\ channel = 1
    /\ inflight = {}
    /\ log = <<>>
    /\ now = StartNow
    /\ ops = MaxOps
    /\ last = Ev("week_approve", 0, "approved", 0, NULL)
    /\ arg = <<>>
    /\ ret = <<>>
    /\ db = NoDb

DeliveryNext ==
    \/ \E j \in jobs : publish_job(j)
    \/ \E a \in inflight : send_ok(a, NextMsgId)
    \/ \E a \in inflight, e \in ErrLens : send_fail(a, e)
    \/ advance_time

DeliverySpec == DeliveryInit /\ [][DeliveryNext]_vars

\* ---- deliveries with fair firing
\* The same week, where the operator may also have set post 1 to 05:00 local
\* of the first day before approving: at the approval that instant has
\* passed. Pending jobs fire, missed jobs are discarded, the transport
\* answers and time passes, each of them fairly.
LivePosts(k, early) ==
    IF early
    THEN [DeliveryPosts(k) EXCEPT ![1] = edit_field(@, "dt", DtText(2, 0, <<5, 0>>, TRUE))]
    ELSE DeliveryPosts(k)

LiveInit ==
    /\ week = [label |-> "W", start_date |-> StartDay, status |-> "draft"]
    /\ \E k \in 2..NPosts, early \in BOOLEAN :
          /\ posts = LivePosts(k, early)
          /\ jobs = schedule_week_posts(LivePosts(k, early), Sched({}, 1, {})).jobs
    /\ nextJob = NPosts + 1
    /\ cancelled = {}
    /\ channel = 1
    /\ inflight = {}
    /\ log = <<>>
    /\ now = StartNow
    /\ ops = MaxOps
    /\ last = Ev("week_approve", 0, "approved", 0, NULL)
    /\ arg = <<>>
    /\ ret = <<>>
    /\ db = NoDb

LiveNext ==
    \/ \E j \in jobs : publish_job(j)
    \/ \E j \in jobs : misfire_job(j)
    \/ \E a \in inflight : send_ok(a, NextMsgId)
    \/ \E a \in inflight, e \in ErrLens : send_fail(a, e)
    \/ advance_time

LiveFairness ==
    /\ WF_vars(\E j \in jobs : publish_job(j))
    /\ WF_vars(\E j \in jobs : misfire_job(j))
    /\ WF_vars(\E a \in inflight : send_ok(a, NextMsgId) \/ \E e \in ErrLens : send_fail(a, e))
    /\ WF_vars(advance_time)

LiveSpec == LiveInit /\ [][LiveNext]_vars /\ LiveFairness

\* ---------------------------------------------------------- daily backup
BACKUP_HOUR == 23
BACKUP_MINUTE == 59
BackupDays == 3      \* clock horizon of the backup schedule, in days

\* UTC minutes of the first day at which the process is started
StartMinutes == {h * 60 + m : h \in 0..23, m \in {0, 59}}

\* datetime.now(ZoneInfo(DEFAULT_TZ)) as a wall-clock minute
now_local(utc) == utc + utcoffset(DEFAULT_TZ, utc + TzOffset)
LocalDay(utc) == now_local(utc) \div Day
LocalMinuteOfDay(utc) == now_local(utc) % Day

\* a job of the queue: run_once has no interval
BackupJob(name, when, interval) == [name |-> name, when |-> when, interval |-> interval]

\* setup_jobs at the UTC minute start: a single run at the next configured
\* local hour and minute, and a repeating run whose first instant is one day
\* after the call and whose interval is one day
setup_jobs(start) ==
    LET todays == LocalDay(start) * Day + BACKUP_HOUR * 60 + BACKUP_MINUTE
        backup_local == IF todays <= now_local(start) THEN todays + Day ELSE todays
        backup_utc == astimezone_utc(DEFAULT_TZ, backup_local)
        delay == backup_utc - start
    IN {BackupJob("daily-backup-initial", start + delay, NULL),
        BackupJob("daily-backup", start + Day, Day)}

\* ---- the tables daily_backup_job reads
UserRow(id, tg_user_id) == [id |-> id, tg_user_id |-> tg_user_id]
ProjectRow(id, tenant_id, status, owner_user_id) ==
    [id |-> id, tenant_id |-> tenant_id, status |-> status, owner_user_id |-> owner_user_id]
MembershipRow(tenant_id, user_id, role, status) ==
    [tenant_id |-> tenant_id, user_id |-> user_id, role |-> role, status |-> status]
BackupWeekRow(project_id, week_label, created_at) ==
    [project_id |-> project_id, week_label |-> week_label, created_at |-> created_at]

BackupUsers == {UserRow(1, 101), UserRow(2, 102), UserRow(3, 103)}

\* The database outlives the process and projects can be provisioned outside
\* the bot (activate_by_id_flow has a branch for a project without owner):
\* project 1 of tenant 1 is active or not, with or without owner, with no,
\* one or two weeks; project 2 of tenant 2 is active with owner and one week.
BackupMemberships ==
    {{},
     {MembershipRow(1, 2, "admin", "active")},
     {MembershipRow(1, 2, "admin", "active"), MembershipRow(1, 3, "owner", "active")},
     {MembershipRow(1, 2, "admin", "active"), MembershipRow(1, 3, "owner", "blocked")}}
BackupWeeks ==
    {{},
     {BackupWeekRow(1, "W01-2025", 10)},
     {BackupWeekRow(1, "W01-2025", 10), BackupWeekRow(1, "W02-2025", 20)}}
BackupDbs ==
    {[users |-> BackupUsers,
      memberships |-> ms \cup {MembershipRow(2, 1, "owner", "active")},
      projects |-> {ProjectRow(1, 1, st, ow), ProjectRow(2, 2, "active", 1)},
      weeks |-> ws \cup {BackupWeekRow(2, "W02-2025", 15)},
      user_ctx |-> {}] :
        ms \in BackupMemberships, ws \in BackupWeeks,
        st \in {"active", "archived"}, ow \in {NULL, 1}}

\* SELECT p.*, u.tg_user_id AS owner_tg FROM projects p LEFT JOIN users u
\* ON u.id = p.owner_user_id WHERE p.status='active', as rows in id order
owner_tg(d, prj) ==
    IF \E u \in d.users : u.id = prj.owner_user_id
    THEN (CHOOSE u \in d.users : u.id = prj.owner_user_id).tg_user_id
    ELSE NULL
RECURSIVE RowsById(_)
RowsById(rows) ==
    IF rows = {} THEN <<>>
    ELSE LET r == CHOOSE x \in rows : \A y \in rows : x.id <= y.id
         IN <<r>> \o RowsById(rows \ {r})
active_projects(d) ==
    LET joined == {[id |-> p.id, tenant_id |-> p.tenant_id, owner_tg |-> owner_tg(d, p)] :
                      p \in {q \in d.projects : q.status = "active"}}
    IN RowsById(joined)

\* SELECT * FROM weeks WHERE project_id=? ORDER BY created_at DESC LIMIT 1:
\* the rows that can come first
latest_week(d, project_pk) ==
    LET ws == {w \in d.weeks : w.project_id = project_pk}
    IN {w \in ws : \A w2 \in ws : w2.created_at <= w.created_at}

\* the fallback taken in ascending order of creation: admins before owners
fallback_admin_any_role(d, tenant_id) ==
    LET ms == {m \in d.memberships : /\ m.tenant_id = tenant_id
                                     /\ m.role \in {"owner", "admin"}
                                     /\ m.status = "active"}
        first == {m \in ms : \A m2 \in ms : m.user_id <= m2.user_id}
    IN {u.tg_user_id : u \in {x \in d.users : \E m \in first : m.user_id = x.id}}

\* the memberships query with ORDER BY CASE WHEN role='owner' THEN 0 ELSE 1
\* END LIMIT 1: the chat ids of the rows that can come first
fallback_admin(d, tenant_id) ==
    LET ms == {m \in d.memberships : /\ m.tenant_id = tenant_id
                                     /\ m.role \in {"owner", "admin"}
                                     /\ m.status = "active"}
        rank(m) == IF m.role = "owner" THEN 0 ELSE 1
        first == {m \in ms : \A m2 \in ms : rank(m) <= rank(m2)}
    IN {u.tg_user_id : u \in {x \in d.users : \E m \in first : m.user_id = x.id}}

\* target_tg of one project row
target_tg(d, prj) ==
    IF prj.owner_tg # NULL THEN {prj.owner_tg} ELSE fallback_admin(d, prj.tenant_id)

\* build_app has run: the queue holds what setup_jobs put there
BackupInit ==
    /\ week = NoWeek
    /\ posts = <<>>
    /\ channel = NULL
    /\ now \in StartMinutes
    /\ jobs = setup_jobs(now)
    /\ nextJob = 1
    /\ cancelled = {}
    /\ inflight = {}
    /\ log = <<>>
    /\ ops = 0
    /\ last = Ev("init", 0, "", 0, NULL)
    /\ arg = <<>>
    /\ ret = <<>>
    /\ db \in BackupDbs

\* a run of daily_backup_job suspended in its loop: the project rows it has
\* fetched and not yet handled
BackupRun(name, todo) == [src |-> "backup", name |-> name, todo |-> todo]
BackupRuns(started) == IF started.todo = <<>> THEN {} ELSE {started}
BackupEv(project_pk, res, chat_id, week_label) ==
    [op |-> "backup_project", post |-> project_pk, res |-> res, job |-> chat_id,
     msg |-> NULL, week_label |-> week_label]

\* The job fires: daily_backup_job fetches the active projects. The run is
\* entered in log with its name and instant; it writes nothing to the
\* database.
backup_run_once(j) ==
    /\ j \in jobs
    /\ j.interval = NULL
    /\ j.when = now
    /\ jobs' = jobs \ {j}
    /\ inflight' = inflight \cup BackupRuns(BackupRun(j.name, active_projects(db)))
    /\ log' = Append(log, [name |-> j.name, ts |-> now])
    /\ last' = Ev("daily_backup_job", 0, j.name, 0, NULL)
    /\ UNCHANGED <<week, posts, channel, nextJob, cancelled, now, ops, arg, ret, db>>

backup_run_repeating(j) ==
    /\ j \in jobs
    /\ j.interval # NULL
    /\ j.when = now
    /\ jobs' = (jobs \ {j}) \cup {[j EXCEPT !.when = @ + j.interval]}
    /\ inflight' = inflight \cup BackupRuns(BackupRun(j.name, active_projects(db)))
    /\ log' = Append(log, [name |-> j.name, ts |-> now])
    /\ last' = Ev("daily_backup_job", 0, j.name, 0, NULL)
    /\ UNCHANGED <<week, posts, channel, nextJob, cancelled, now, ops, arg, ret, db>>

\* a failed send ends the run
run_after_send_raising(r, ok) ==
    IF ok THEN BackupRuns([r EXCEPT !.todo = Tail(@)]) ELSE {}

\* try: await send_document(...) except: pass, then the next project
run_after_send(r, ok) == BackupRuns([r EXCEPT !.todo = Tail(@)])

\* one turn of the loop for a project without week or without target
backup_skip_project(r) ==
    /\ r \in inflight /\ r.src = "backup"
    /\ LET prj == Head(r.todo)
       IN /\ latest_week(db, prj.id) = {} \/ target_tg(db, prj) = {}
          /\ last' = BackupEv(prj.id, "skipped", NULL, "")
    /\ inflight' = (inflight \ {r}) \cup run_after_send(r, TRUE)
    /\ UNCHANGED <<week, posts, channel, jobs, nextJob, cancelled, log, now, ops, arg, ret, db>>

\* one turn of the loop that reaches send_document, which returns or raises
backup_send_document(r, ok) ==
    /\ r \in inflight /\ r.src = "backup"
    /\ LET prj == Head(r.todo)
       IN \E w \in latest_week(db, prj.id), tg \in target_tg(db, prj) :
             last' = BackupEv(prj.id, IF ok THEN "sent" ELSE "send_failed", tg, w.week_label)
    /\ inflight' = (inflight \ {r}) \cup run_after_send(r, ok)
    /\ UNCHANGED <<week, posts, channel, jobs, nextJob, cancelled, log, now, ops, arg, ret, db>>

\* time passes up to the next due job once the runs in progress have ended
backup_advance_time ==
    /\ jobs # {}
    /\ inflight = {}
    /\ \A j \in jobs : j.when > now
    /\ now' = MinWhen(jobs)
    /\ now' <= BackupDays * Day
    /\ last' = Ev("advance_time", 0, "", 0, NULL)
    /\ UNCHANGED <<week, posts, channel, jobs, nextJob, cancelled, inflight, log, ops, arg, ret, db>>

BackupNext ==
    \/ \E j \in jobs : backup_run_once(j)
    \/ \E j \in jobs : backup_run_repeating(j)
    \/ \E r \in inflight : backup_skip_project(r)
    \/ \E r \in inflight, ok \in BOOLEAN : backup_send_document(r, ok)
    \/ backup_advance_time

BackupSpec == BackupInit /\ [][BackupNext]_vars


\* ------------------------------------------- projects, roles and contexts
AccountOps == 4      \* requests handled in one behaviour of the account flows
MaxProjects == 3     \* rows of the projects table
FirstProjectId == 100000

\* a label column that is NULL, and the None of set_user_ctx's parameters
NoLabel == <<>>

\* the columns of projects the account flows read
ProjectCard(id, tenant_id, project_id, allow_id_join, owner_user_id) ==
    [id |-> id, tenant_id |-> tenant_id, project_id |-> project_id,
     allow_id_join |-> allow_id_join, owner_user_id |-> owner_user_id, status |-> "active"]
UserCtxRow(user_id, tenant_id, project_pk, week_label) ==
    [user_id |-> user_id, current_tenant_id |-> tenant_id,
     current_project_pk |-> project_pk, current_week_label |-> week_label]

\* INSERT ... ON CONFLICT(tenant_id,user_id) DO UPDATE SET role, status
add_membership(ms, tenant_id, user_id, role) ==
    {m \in ms : ~(m.tenant_id = tenant_id /\ m.user_id = user_id)}
        \cup {MembershipRow(tenant_id, user_id, role, "active")}

has_role(ms, user_id, tenant_id, roles) ==
    \E m \in ms : /\ m.tenant_id = tenant_id /\ m.user_id = user_id
                  /\ m.status = "active" /\ m.role \in roles
user_has_access_to_project(ms, user_id, tenant_id) ==
    has_role(ms, user_id, tenant_id, {"owner", "admin"})

find_project_by_pid(ps, project_id) == {p \in ps : p.project_id = project_id}
set_project_owner(ps, project_pk, owner_user_id) ==
    {IF p.id = project_pk THEN [p EXCEPT !.owner_user_id = owner_user_id] ELSE p : p \in ps}
toggle_allow_id_join(ps, project_pk, value) ==
    {IF p.id = project_pk THEN [p EXCEPT !.allow_id_join = value] ELSE p : p \in ps}

MaxOf(S, least) == IF S = {} THEN least ELSE CHOOSE x \in S : \A y \in S : y <= x

\* INSERT INTO user_ctx(user_id) ... ON CONFLICT DO NOTHING
ensure_user_ctx(ctxs, user_id) ==
    IF \E r \in ctxs : r.user_id = user_id THEN ctxs
    ELSE ctxs \cup {UserCtxRow(user_id, NULL, NULL, NoLabel)}
get_user_ctx(ctxs, user_id) ==
    CHOOSE r \in ensure_user_ctx(ctxs, user_id) : r.user_id = user_id

\* each column takes the argument unless the argument is None
set_user_ctx(ctxs, user_id, tenant_id, project_pk, week_label) ==
    LET row == get_user_ctx(ctxs, user_id)
        new == UserCtxRow(user_id,
                   IF tenant_id # NULL THEN tenant_id ELSE row.current_tenant_id,
                   IF project_pk # NULL THEN project_pk ELSE row.current_project_pk,
                   IF week_label # NoLabel THEN week_label ELSE row.current_week_label)
    IN (ensure_user_ctx(ctxs, user_id) \ {row}) \cup {new}

\* two users who have sent /start or not; project 1 was created by user 1,
\* project 2 was provisioned for another tenant and has no owner yet or
\* belongs to user 2; joining by ID is open or closed
AccountUsers == {1, 2}
AccountDbs ==
    {[users |-> {UserRow(u, 100 + u) : u \in AccountUsers},
      memberships |-> {MembershipRow(1, 1, "owner", "active")}
                        \cup (IF ow2 = NULL THEN {}
                              ELSE {MembershipRow(2, ow2, "owner", "active")}),
      projects |-> {ProjectCard(1, 1, FirstProjectId + 1, j1, 1),
                    ProjectCard(2, 2, FirstProjectId + 2, j2, ow2)},
      weeks |-> {},
      user_ctx |-> {}] :
        ow2 \in {NULL, 2}, j1 \in {0, 1}, j2 \in {0, 1}}

\* numeric ids typed after /activate: the two projects, one more, none
TypedProjectIds == {FirstProjectId + 1, FirstProjectId + 2, FirstProjectId + 3, FirstProjectId + 9}
\* the local dates on which a week is created
Todays == {[y |-> 2024, m |-> 12, d |-> 30], [y |-> 2025, m |-> 1, d |-> 6]}

AccountInit ==
    /\ week = NoWeek
    /\ posts = <<>>
    /\ channel = NULL
    /\ jobs = {}
    /\ nextJob = 1
    /\ cancelled = {}
    /\ inflight = {}
    /\ log = <<>>
    /\ now = StartNow
    /\ ops = 0
    /\ last = Ev("init", 0, "", 0, NULL)
    /\ arg = <<>>
    /\ ret = <<>>
    /\ db \in AccountDbs

AccountStep(op, user_id, res, project_pk) ==
    /\ ops' = ops + 1
    /\ last' = Ev(op, user_id, res, project_pk, NULL)
    /\ UNCHANGED <<week, posts, channel, jobs, nextJob, cancelled, inflight, log, now, arg, ret>>

\* /activate <id>, or the id typed in the conversation
activate_by_id_flow(user_id, numeric_pid) ==
    /\ ops < AccountOps
    /\ LET found == find_project_by_pid(db.projects, numeric_pid)
       IN IF found = {} \/ (\E p \in found : p.status # "active")
          THEN /\ db' = db
               /\ AccountStep("activate_by_id_flow", user_id, "not_found", 0)
          ELSE LET prj == CHOOSE p \in found : TRUE
               IN IF prj.owner_user_id = NULL
                  THEN /\ db' = [db EXCEPT
                              !.memberships = add_membership(@, prj.tenant_id, user_id, "owner"),
                              !.projects = set_project_owner(@, prj.id, user_id),
                              !.user_ctx = set_user_ctx(@, user_id, prj.tenant_id, prj.id, NoLabel)]
                       /\ AccountStep("activate_by_id_flow", user_id, "owner", prj.id)
                  ELSE IF prj.allow_id_join # 0
                  THEN /\ db' = [db EXCEPT
                              !.memberships = add_membership(@, prj.tenant_id, user_id, "admin"),
                              !.user_ctx = set_user_ctx(@, user_id, prj.tenant_id, prj.id, NoLabel)]
                       /\ AccountStep("activate_by_id_flow", user_id, "admin", prj.id)
                  ELSE /\ db' = db
                       /\ AccountStep("activate_by_id_flow", user_id, "rejected", prj.id)

\* the new project's name arrives: tenant, membership, project, owner, context
on_new_project_name(user_id) ==
    /\ ops < AccountOps
    /\ Cardinality(db.projects) < MaxProjects
    /\ LET tenant_id == MaxOf({p.tenant_id : p \in db.projects}, 0) + 1
           pk == MaxOf({p.id : p \in db.projects}, 0) + 1
           new_pid == MaxOf({p.project_id : p \in db.projects}, FirstProjectId) + 1
       IN /\ db' = [db EXCEPT
                 !.memberships = add_membership(@, tenant_id, user_id, "owner"),
                 !.projects = set_project_owner(@ \cup {ProjectCard(pk, tenant_id, new_pid, 1, NULL)},
                                                pk, user_id),
                 !.user_ctx = set_user_ctx(@, user_id, tenant_id, pk, NoLabel)]
          /\ AccountStep("on_new_project_name", user_id, "created", pk)

\* prj:select:<pk>
prj_select(user_id, pk) ==
    /\ ops < AccountOps
    /\ LET found == {p \in db.projects : p.id = pk}
       IN IF found = {}
          THEN /\ db' = db
               /\ AccountStep("prj_select", user_id, "not_found", pk)
          ELSE LET prj == CHOOSE p \in found : TRUE
               IN IF ~user_has_access_to_project(db.memberships, user_id, prj.tenant_id)
                  THEN /\ db' = db
                       /\ AccountStep("prj_select", user_id, "no_access", pk)
                  ELSE /\ db' = [db EXCEPT !.user_ctx =
                                    set_user_ctx(@, user_id, prj.tenant_id, prj.id, NoLabel)]
                       /\ AccountStep("prj_select", user_id, "selected", pk)

\* prj:toggle_join:<pk>
prj_toggle_join(user_id, pk) ==
    /\ ops < AccountOps
    /\ LET found == {p \in db.projects : p.id = pk}
       IN IF found = {} \/ (\E p \in found :
                               ~user_has_access_to_project(db.memberships, user_id, p.tenant_id))
          THEN /\ db' = db
               /\ AccountStep("prj_toggle_join", user_id, "no_access", pk)
          ELSE LET prj == CHOOSE p \in found : TRUE
               IN /\ db' = [db EXCEPT !.projects =
                               toggle_allow_id_join(@, pk, IF prj.allow_id_join # 0 THEN 0 ELSE 1)]
                  /\ AccountStep("prj_toggle_join", user_id, "toggled", pk)

\* week_create for the project of the user's context on the local date today
account_week_create(user_id, today) ==
    /\ ops < AccountOps
    /\ LET ctx == get_user_ctx(db.user_ctx, user_id)
       IN IF ctx.current_project_pk = NULL
          THEN /\ db' = [db EXCEPT !.user_ctx = ensure_user_ctx(@, user_id)]
               /\ AccountStep("week_create", user_id, "no_project", 0)
          ELSE LET prj == CHOOSE p \in db.projects : p.id = ctx.current_project_pk
                   up == upsert_week(db.weeks, prj.tenant_id, prj.id, today)
               IN /\ db' = [db EXCEPT
                         !.weeks = up.weeks,
                         !.user_ctx = set_user_ctx(@, user_id, NULL, NULL, up.row.week_label)]
                  /\ AccountStep("week_create", user_id, "ok", prj.id)

AccountNext ==
    \/ \E u \in AccountUsers, pid \in TypedProjectIds : activate_by_id_flow(u, pid)
    \/ \E u \in AccountUsers : on_new_project_name(u)
    \/ \E u \in AccountUsers, pk \in 1..MaxProjects : prj_select(u, pk)
    \/ \E u \in AccountUsers, pk \in 1..MaxProjects : prj_toggle_join(u, pk)
    \/ \E u \in AccountUsers, today \in Todays : account_week_create(u, today)

AccountSpec == AccountInit /\ [][AccountNext]_vars

\* ================================================================ claims
PostNos == 1..NPosts
Approved(ev) == ev.op = "week_approve" /\ ev.res = "approved"
JobsOf(js, post_id) == {j \in js : j.post = post_id}

\* C1: scheduling the same post again, with another instant, leaves exactly
\* one pending job named tenant-project-pub-post, firing at the later
\* instant (the post's publish instant at that call); the job it replaced is
\* cancelled and never fires.
C1_ScheduleDedup ==
    /\ [][Approved(last') =>
            \A i \in PostNos :
                /\ Cardinality(PubJobs(jobs', i)) = 1
                /\ \A j \in PubJobs(jobs', i) : j.when = posts'[i].publish_at
                /\ PubJobs(jobs, i) \subseteq cancelled'
                /\ PubJobs(jobs, i) \cap jobs' = {}]_vars
    /\ [](\A i \in PostNos : Cardinality(PubJobs(jobs, i)) <= 1)
    /\ [][last'.op = "publish_job" => \A c \in cancelled' : c.id # last'.job]_vars

\* a second schedule call replaced a pending job by one at another instant
C1_Witness ==
    /\ Approved(last)
    /\ \E c \in cancelled, j \in jobs :
          /\ c.name = j.name
          /\ c.when # j.when
          /\ j.when = posts[j.post].publish_at
          /\ PubJobs(jobs, j.post) = {j}

\* C2: every post has at most one pending delivery job, scheduled and retry
\* jobs counted together.
C2_AtMostOnePending ==
    \A i \in PostNos : Cardinality(JobsOf(jobs, i)) <= 1

\* the seven readiness rules, as the approval gate states them
HasDefect(p) ==
    \/ p.title = 0 \/ p.title > 60
    \/ p.lead = 0 \/ p.lead > 140
    \/ p.body = 0
    \/ (p.cta_text > 0 /\ p.cta_url = 0)
    \/ p.tags > 10
    \/ p.cover_url = 0
    \/ p.publish_at = NULL

Defective(ps) == {i \in 1..Len(ps) : HasDefect(ps[i])}

\* C3: approve on a week of seven posts of which at least one has a defect
\* changes no post, not the week record, and neither creates nor cancels a job.
C3_AllOrNothing ==
    [][(last'.op = "week_approve" /\ Len(posts) = NPosts /\ Defective(posts) # {}) =>
          /\ posts' = posts
          /\ week' = week
          /\ jobs' = jobs
          /\ cancelled' = cancelled
          /\ nextJob' = nextJob]_vars

\* approve was refused for six valid posts and one invalid one, with jobs of
\* an earlier approval still pending
C3_Witness ==
    /\ last.op = "week_approve" /\ last.res = "defects"
    /\ Len(posts) = NPosts
    /\ Cardinality(Defective(posts)) = 1
    /\ Cardinality(jobs) = NPosts
    /\ \A i \in PostNos : posts[i].status = "approved"
\* C4: after an approval of seven valid posts there are exactly seven pending
\* delivery jobs for the week, one per post, each firing at the post's stored
\* publish instant.
C4_SevenJobsAfterApprove ==
    [][Approved(last') =>
          /\ \A i \in PostNos : posts'[i].status = "approved"
          /\ Cardinality(jobs') = NPosts
          /\ \A i \in PostNos :
                /\ Cardinality(JobsOf(jobs', i)) = 1
                /\ \A j \in JobsOf(jobs', i) : j.when = posts'[i].publish_at]_vars

\* C5: approve on a week with fewer than seven posts ends with the 'generate
\* drafts first' answer and changes neither posts nor jobs.
C5_GenerateDraftsFirst ==
    [][(last'.op = "week_approve" /\ Len(posts) < NPosts) =>
          /\ last'.res = "generate_first"
          /\ posts' = posts
          /\ jobs' = jobs]_vars

LastEntry(lg) == lg[Len(lg)]

\* C6: when the transport fails, the attempt completes with the post failed,
\* its error note set and at most 500 characters long, one FAILED entry
\* appended to the publish log, and one new retry job named
\* tenant-project-retry-post pending that fires 3 minutes later for that post.
C6_FailurePath ==
    [][last'.op = "send_fail" =>
          LET p == last'.post IN
          /\ posts'[p].status = "failed"
          /\ posts'[p].error_note \in 0..500
          /\ Len(log') = Len(log) + 1
          /\ SubSeq(log', 1, Len(log)) = log
          /\ LastEntry(log').result = "FAILED"
          /\ LastEntry(log').post_id = p
          /\ LastEntry(log').error_note = posts'[p].error_note
          /\ jobs \subseteq jobs'
          /\ Cardinality(jobs' \ jobs) = 1
          /\ \A j \in jobs' \ jobs :
                /\ j.name = <<Tenant, ProjectPk, "retry", p>>
                /\ j.post = p
                /\ j.when = now + 3]_vars

\* a failed attempt whose error text was longer than 500 characters
C6_Witness ==
    /\ last.op = "send_fail"
    /\ posts[last.post].status = "failed"
    /\ posts[last.post].error_note = 500
    /\ LastEntry(log).result = "FAILED"
    /\ \E j \in RetryJobs(jobs, last.post) : j.when = now + 3

\* C7: when the attempt made by a retry job fails, no further retry job is
\* scheduled.
C7_SingleShotRetry ==
    [][(last'.op = "send_fail" /\ last'.res = "retry") => jobs' \subseteq jobs]_vars

\* C8: when the transport succeeds, the attempt completes with the post
\* published, the returned message reference stored on it, exactly one OK
\* entry carrying that reference appended to the log, and no job created.
C8_SuccessPath ==
    [][last'.op = "send_ok" =>
          LET p == last'.post IN
          /\ last'.msg # NULL
          /\ posts'[p].status = "published"
          /\ posts'[p].message_id = last'.msg
          /\ Len(log') = Len(log) + 1
          /\ SubSeq(log', 1, Len(log)) = log
          /\ LastEntry(log').result = "OK"
          /\ LastEntry(log').post_id = p
          /\ LastEntry(log').message_id = last'.msg
          /\ jobs' = jobs]_vars

\* a delivery succeeded for a post that held another message reference
C8_Witness ==
    /\ last.op = "send_ok"
    /\ posts[last.post].status = "published"
    /\ posts[last.post].message_id = last.msg
    /\ LastEntry(log).result = "OK"
    /\ \E k \in 1..(Len(log) - 1) :
          /\ log[k].post_id = last.post
          /\ log[k].result = "OK"
          /\ log[k].message_id # last.msg

\* C9: when the Publisher runs without a bound channel (from a scheduled
\* job, a retry job or publish-now) nothing is sent, nothing is logged, no
\* post changes and no job is created.
C9_NoChannelNoop ==
    [][(last'.op \in {"publish_job", "publish_now"} /\ channel = NULL) =>
          /\ inflight' = inflight
          /\ posts' = posts
          /\ log' = log
          /\ jobs' \subseteq jobs
          /\ nextJob' = nextJob]_vars

\* a scheduled job fired for an approved post of a project without channel
C9_Witness ==
    /\ last.op = "publish_job"
    /\ channel = NULL
    /\ posts[last.post].status = "approved"
    /\ inflight = {}
    /\ log = <<>>

Rank(st) ==
    CASE st = "draft" -> 0
      [] st = "review" -> 1
      [] st = "approved" -> 2
      [] st = "published" -> 3
      [] st = "failed" -> 3

Forward(a, b) == Rank(a) < Rank(b) \/ (a = "failed" /\ b = "published")

C11_PublishedNeedsInstantAndChannel ==
    /\ [][\A i \in 1..Len(posts) :
             (posts'[i].status = "published" /\ posts[i].status # "published") =>
                 /\ last'.op = "send_ok"
                 /\ last'.post = i]_vars
    /\ [][last'.op = "send_ok" =>
             /\ last'.res \in {"pub", "retry", "now"}
             /\ channel # NULL
             /\ posts[last'.post].publish_at # NULL]_vars

\* a retry job delivered a post that had failed before
C11_Witness ==
    /\ last.op = "send_ok"
    /\ last.res = "retry"
    /\ posts[last.post].status = "published"
    /\ posts[last.post].publish_at # NULL
    /\ channel # NULL
    /\ \E k \in 1..Len(log) : log[k].post_id = last.post /\ log[k].result = "FAILED"

PostLog(lg, p) == SelectSeq(lg, LAMBDA e : e.post_id = p)
IsPrefix(a, b) == Len(a) <= Len(b) /\ SubSeq(b, 1, Len(a)) = a

\* C12: every step leaves the publish log it found as a prefix of the log it
\* leaves, for the whole log and for the entries of each post; an attempt
\* that comes back from the transport appends exactly one entry, OK or
\* FAILED, for its post, and no other step changes the log.
C12_LogAppendOnly ==
    [][/\ IsPrefix(log, log')
       /\ \A p \in PostNos : IsPrefix(PostLog(log, p), PostLog(log', p))
       /\ last'.op = "send_ok" =>
             /\ Len(log') = Len(log) + 1
             /\ LastEntry(log').result = "OK"
             /\ LastEntry(log').post_id = last'.post
       /\ last'.op = "send_fail" =>
             /\ Len(log') = Len(log) + 1
             /\ LastEntry(log').result = "FAILED"
             /\ LastEntry(log').post_id = last'.post
       /\ last'.op \notin {"send_ok", "send_fail"} => log' = log]_vars

\* a failed attempt was logged after a delivered one, whose entry is kept
C12_Witness ==
    /\ last.op = "send_fail"
    /\ Len(log) >= 2
    /\ log[1].result = "OK"
    /\ log[1].post_id = last.post
    /\ LastEntry(log).result = "FAILED"
    /\ Len(PostLog(log, last.post)) = Len(log)

\* C13: generating the drafts of a week always leaves exactly seven posts,
\* and on a week that already has posts it changes nothing: the posts keep
\* every field, edited or not, and no job is touched.
C13_GenerateIdempotent ==
    [][last'.op = "week_gen" =>
          /\ Len(posts') = 7
          /\ Len(posts) > 0 =>
                /\ posts' = posts
                /\ week' = week
                /\ jobs' = jobs
                /\ cancelled' = cancelled]_vars

\* drafts were generated again after post 1 was given an overlong title and
\* another status
C13_Witness ==
    /\ last.op = "week_gen"
    /\ Len(posts) = 7
    /\ posts[1].title = 61
    /\ posts[1].status = "review"

\* C14: approving a week again right after a successful approval, no job
\* having fired in between, leaves all seven posts approved and exactly one
\* pending delivery job per post, firing at the post's publish instant.
C14_ReapproveIdempotent ==
    [][(Approved(last) /\ Approved(last')) =>
          /\ \A i \in PostNos : posts'[i].status = "approved"
          /\ \A i \in PostNos :
                /\ Cardinality(JobsOf(jobs', i)) = 1
                /\ \A j \in JobsOf(jobs', i) : j.when = posts'[i].publish_at]_vars

\* C15: the +1 day week shift moves the publish instant of every post of
\* the week that has one by exactly 24 hours (1440 minutes), leaves a null
\* instant null, and changes no post of another week or another project.
C15_ShiftDay ==
    last.op = "week_shift_day" =>
        /\ Len(ret) = Len(arg.rows)
        /\ \A k \in 1..Len(arg.rows) :
              LET r == arg.rows[k]
                  q == ret[k]
              IN IF r.project_id = arg.project_pk /\ r.week_label = arg.week_label
                 THEN /\ q.project_id = r.project_id
                      /\ q.week_label = r.week_label
                      /\ r.publish_at = NULL => q.publish_at = NULL
                      /\ r.publish_at # NULL => q.publish_at = r.publish_at + 24 * 60
                 ELSE q = r

\* the shifted week has a post with an instant and one without, and the
\* table holds a post with an instant of the same project in another week
C15_Witness ==
    /\ last.op = "week_shift_day"
    /\ \E k \in 1..Len(ret) :
          /\ arg.rows[k] = Row(1, "W37", 420)
          /\ ret[k].publish_at = 1860
    /\ \E k \in 1..Len(ret) :
          /\ arg.rows[k] = Row(1, "W37", NULL)
          /\ ret[k].publish_at = NULL
    /\ \E k \in 1..Len(ret) :
          /\ arg.rows[k] = Row(1, "W38", 420)
          /\ ret[k].publish_at = 420

\* the seven field rules of a ready post
Ready(p) ==
    /\ p.title >= 1 /\ p.title <= 60
    /\ p.lead >= 1 /\ p.lead <= 140
    /\ p.body >= 1
    /\ (p.cta_text >= 1 => p.cta_url >= 1)
    /\ p.tags <= 10
    /\ p.cover_url >= 1
    /\ p.publish_at # NULL

InSeq(x, sq) == \E k \in 1..Len(sq) : sq[k] = x

\* C16: validate(post) returns no defects if and only if all seven rules
\* hold (title 1..60 characters, lead 1..140, body non-empty, CTA text only
\* with a CTA URL, at most 10 hashtag tokens, cover present, publish instant
\* set), and a title of 61 characters always yields a title defect.
C16_ValidateIff ==
    last.op = "validate_post" =>
        /\ (ret = <<>>) <=> Ready(arg.p)
        /\ arg.p.title = 61 => InSeq("title", ret)

\* validate was applied to a post with CTA text and URL whose only flaw is a
\* title of 61 characters
C16_Witness ==
    /\ last.op = "validate_post"
    /\ arg.p.title = 61
    /\ arg.p.cta_text = 5 /\ arg.p.cta_url = 20
    /\ Ready([arg.p EXCEPT !.title = 60])
    /\ ret = <<"title">>

\* C17: a job scheduled for an instant that has already passed is not
\* dropped: it leaves the queue only by running the Publisher for its post
\* (or by being replaced by a later schedule call for the same post).
C17_PastInstantFires ==
    [][\A j \in jobs :
          (j.when < now /\ j \notin jobs') =>
              \/ last'.op = "publish_job" /\ last'.job = j.id /\ last'.post = j.post
              \/ j \in cancelled']_vars

\* ISO 8601 week numbering: a week belongs to the year that holds its
\* Thursday, and weeks are counted by the Thursdays of that year
Weekday(ord) == ((ord - 1) % 7) + 1
ThursdayOf(ord) == ord - Weekday(ord) + 4
YearOfOrd(ord) ==
    CHOOSE y \in 2020..2030 : DaysBeforeYear(y) < ord /\ ord <= DaysBeforeYear(y + 1)
IsoYear(dt) == YearOfOrd(ThursdayOf(ymd2ord(dt.y, dt.m, dt.d)))
IsoWeek(dt) ==
    LET th == ThursdayOf(ymd2ord(dt.y, dt.m, dt.d))
    IN (th - DaysBeforeYear(YearOfOrd(th)) - 1) \div 7 + 1

\* W, two digits, a hyphen, four digits
IsoLabel(w, y) ==
    <<"W", DigitChar(w \div 10), DigitChar(w % 10), "-",
      DigitChar(y \div 1000), DigitChar((y \div 100) % 10),
      DigitChar((y \div 10) % 10), DigitChar(y % 10)>>

\* C18: week_label(d) is W<two-digit ISO week>-<four-digit ISO year> of d
\* under ISO 8601 week numbering; 2024-12-30 gives W01-2025 and 2025-09-08
\* gives W37-2025.
C18_WeekLabelIso ==
    last.op = "week_label_from_date" =>
        /\ ret = IsoLabel(IsoWeek(arg.d), IsoYear(arg.d))
        /\ arg.d = [y |-> 2024, m |-> 12, d |-> 30] =>
              ret = <<"W", "0", "1", "-", "2", "0", "2", "5">>
        /\ arg.d = [y |-> 2025, m |-> 9, d |-> 8] =>
              ret = <<"W", "3", "7", "-", "2", "0", "2", "5">>

\* the label of 2024-12-30, a Monday whose ISO year is the next year
C18_Witness ==
    /\ last.op = "week_label_from_date"
    /\ arg.d = [y |-> 2024, m |-> 12, d |-> 30]
    /\ ret = <<"W", "0", "1", "-", "2", "0", "2", "5">>

\* the offset of a zone at 10:00 wall-clock time of a day
OffsetOn(tz, day) ==
    IF tz.from <= day * 1440 + 600 /\ day * 1440 + 600 < tz.to THEN tz.dst ELSE tz.std

\* C19: default_schedule(local_start_date, tz) yields seven UTC instants,
\* instant i (i = 0..6) being 10:00 local time of local_start_date + i days
\* converted with the zone's offset of that day; in a fixed-offset zone
\* consecutive instants are 24 hours apart, and in Europe/Moscow (UTC+3)
\* each is at 07:00 UTC.
C19_DefaultSchedule ==
    last.op = "make_default_schedule" =>
        /\ Len(ret) = 7
        /\ \A i \in 0..6 :
              ret[i + 1] = (arg.local_start + i) * 1440 + 600
                              - OffsetOn(arg.tz, arg.local_start + i)
        /\ arg.tz.std = arg.tz.dst =>
              \A i \in 1..6 : ret[i + 1] - ret[i] = 1440
        /\ (arg.tz.std = 180 /\ arg.tz.dst = 180) =>
              \A i \in 1..7 : ret[i] % 1440 = 7 * 60

\* a schedule over a week in which the zone moves to summer time on its
\* third day: the second and third instants are 23 hours apart
C19_Witness ==
    /\ last.op = "make_default_schedule"
    /\ arg.local_start = 0
    /\ arg.tz.std = 60 /\ arg.tz.dst = 120
    /\ ret[2] = 1440 + 600 - 60
    /\ ret[3] = 2880 + 600 - 120
    /\ ret[3] - ret[2] = 23 * 60

\* C20: with a bound channel and a transport that fails on every call, the
\* automatic attempts for a post stop after a bounded number of attempts:
\* when the operator has made one request only and MaxLog attempts for the
\* post have failed, the last of them made by a retry job, no delivery job
\* for the post is pending any more.
C20_RetriesStop ==
    [][(/\ last'.op = "send_fail"
        /\ last'.res = "retry"
        /\ ops' <= 1
        /\ channel # NULL
        /\ \A k \in 1..Len(log') : log'[k].result = "FAILED"
        /\ Len(PostLog(log', last'.post)) >= MaxLog) =>
            JobsOf(jobs', last'.post) = {}]_vars

\* C21: when the date/time edit changes the publish instant of an approved
\* post that has a pending delivery job, that job is cancelled and a new one
\* is pending whose fire time is the post's new publish instant.
C21_EditReschedules ==
    [][(/\ last'.op = "on_edit_value"
        /\ last'.res = "dt"
        /\ posts[last'.post].status = "approved"
        /\ PubJobs(jobs, last'.post) # {}
        /\ posts'[last'.post].publish_at # posts[last'.post].publish_at) =>
            /\ PubJobs(jobs, last'.post) \subseteq cancelled'
            /\ Cardinality(PubJobs(jobs', last'.post)) = 1
            /\ \A j \in PubJobs(jobs', last'.post) :
                  j.when = posts'[last'.post].publish_at]_vars

\* C22: a post that becomes approved, by week approval or by manual status
\* setting, has exactly one pending delivery job named
\* tenant-project-pub-post from then on until it is handed to the Publisher.
C22_ApprovedHasJob ==
    [][\A i \in 1..Len(posts) :
          (posts'[i].status = "approved" /\ posts[i].status # "approved") =>
              Cardinality(PubJobs(jobs', i)) = 1]_vars

\* C23: the week shift leaves the job queue and the post statuses as they
\* are: every pending job keeps its fire time, and a job fires at its own
\* fire time whatever the post's publish instant has become.
C23_ShiftKeepsJobs ==
    /\ [][last'.op = "week_shift_day" =>
             /\ jobs' = jobs
             /\ cancelled' = cancelled
             /\ nextJob' = nextJob
             /\ \A i \in 1..Len(posts) : posts'[i].status = posts[i].status]_vars
    /\ [][last'.op = "publish_job" =>
             \E j \in jobs \ jobs' : j.id = last'.job /\ j.when = now']_vars

\* the job of an approved post fired at the instant the post had before the
\* week was shifted by a day
C23_Witness ==
    /\ last.op = "publish_job"
    /\ last.res = "sending"
    /\ posts[last.post].status = "approved"
    /\ posts[last.post].publish_at = now + 1440

\* C24: after a successful week approval the week record's status is
\* approved.
C24_WeekStatusApproved ==
    [][Approved(last') => week'.status = "approved"]_vars

\* C25: the week has either no post or exactly seven posts numbered 1..7,
\* each number once, and once the posts exist no operation adds, removes or
\* renumbers one.
C25_SevenPosts ==
    /\ [](/\ Len(posts) \in {0, 7}
          /\ \A n \in 1..Len(posts) :
                Cardinality({i \in 1..Len(posts) : posts[i].post_no = n}) = 1)
    /\ [][Len(posts) # 0 =>
             /\ Len(posts') = Len(posts)
             /\ \A i \in 1..Len(posts) : posts'[i].post_no = posts[i].post_no]_vars

\* drafts were generated again for a week one of whose posts is delivered
C25_Witness ==
    /\ last.op = "week_gen"
    /\ Len(posts) = 7
    /\ {posts[i].post_no : i \in 1..7} = 1..7
    /\ \E i \in 1..7 : posts[i].status = "published"

\* C26: a failed delivery of one post changes only that post, its log
\* entries and its retry job: the other six posts keep every field, their
\* log entries and their pending jobs, and those jobs still fire.
C26_FailureIsolated ==
    /\ [][last'.op = "send_fail" =>
             \A i \in PostNos \ {last'.post} :
                /\ posts'[i] = posts[i]
                /\ JobsOf(jobs', i) = JobsOf(jobs, i)
                /\ PostLog(log', i) = PostLog(log, i)]_vars
    /\ [][\A j \in jobs :
             j \notin jobs' =>
                 /\ last'.op = "publish_job"
                 /\ last'.job = j.id
                 /\ j.when = now]_vars

\* the first post was delivered by its job after the delivery of another
\* post of the week had failed
C26_Witness ==
    /\ last.op = "send_ok"
    /\ last.post = 1
    /\ last.res = "pub"
    /\ posts[1].status = "published"
    /\ \E i \in 2..NPosts :
          /\ posts[i].status = "failed"
          /\ \E k \in 1..Len(log) : log[k].post_id = i /\ log[k].result = "FAILED"

Unparseable(v) ==
    \/ v.lines < 2
    \/ v.date = NULL
    \/ v.time = <<>>
    \/ v.time[1] < 0 \/ v.time[1] > 23
    \/ v.time[2] < 0 \/ v.time[2] > 59
    \/ ~v.zone_found

\* C28: a date/time edit whose text cannot be parsed (fewer than two lines,
\* malformed date, malformed or out-of-range time) or whose project zone is
\* not recognized changes nothing: every post keeps all its fields, and no
\* job is created or cancelled.
C28_BadDateTimeRejected ==
    [][\A e \in EditInputs, n \in ManualPosts :
          (e[1] = "dt" /\ Unparseable(e[2]) /\ on_edit_value(n, e[1], e[2])) =>
              /\ last'.res \in {"rejected", "raised"}
              /\ posts' = posts
              /\ week' = week
              /\ jobs' = jobs
              /\ cancelled' = cancelled
              /\ nextJob' = nextJob]_vars

\* the date/time edit of an approved post with a pending job raised
C28_Witness ==
    /\ last.op = "on_edit_value"
    /\ last.res = "raised"
    /\ posts[last.post].status = "approved"
    /\ \E j \in PubJobs(jobs, last.post) : j.when = posts[last.post].publish_at

\* the earlier calls for the same tenant and project whose start date lies in
\* the ISO week of the start date of the call looked at
SameWeekCalls ==
    {k \in 1..Len(arg.earlier) :
        /\ arg.earlier[k].tenant_id = arg.tenant_id
        /\ arg.earlier[k].project_pk = arg.project_pk
        /\ IsoYear(arg.earlier[k].start_date) = IsoYear(arg.start_date)
        /\ IsoWeek(arg.earlier[k].start_date) = IsoWeek(arg.start_date)}

\* C29: creating a week again for the same tenant and project with a start
\* date in the same ISO week leaves one week record: the table is unchanged,
\* the row returned is the one the first such call wrote, with its start date
\* and its status, and no two rows share tenant, project and label.
C29_UpsertWeekSingle ==
    last.op = "upsert_week" =>
        /\ \A r1, r2 \in ret.weeks :
              (/\ r1.tenant_id = r2.tenant_id
               /\ r1.project_id = r2.project_id
               /\ r1.week_label = r2.week_label) => r1 = r2
        /\ SameWeekCalls # {} =>
              LET first == arg.earlier[CHOOSE k \in SameWeekCalls :
                                          \A k2 \in SameWeekCalls : k <= k2]
              IN /\ ret.weeks = WeeksAfter(arg.earlier)
                 /\ ret.row \in WeeksAfter(arg.earlier)
                 /\ ret.row.start_date = isoformat(first.start_date)
                 /\ ret.row.status = "draft"
                 /\ Cardinality({r \in ret.weeks :
                                   /\ r.tenant_id = arg.tenant_id
                                   /\ r.project_id = arg.project_pk
                                   /\ r.week_label = IsoLabel(IsoWeek(arg.start_date),
                                                              IsoYear(arg.start_date))}) = 1

\* 2024-12-30 first, then 2025-01-01 of the same ISO week W01-2025
C29_Witness ==
    /\ last.op = "upsert_week"
    /\ Len(arg.earlier) = 1
    /\ arg.earlier[1].tenant_id = arg.tenant_id
    /\ arg.earlier[1].project_pk = arg.project_pk
    /\ arg.earlier[1].start_date = [y |-> 2024, m |-> 12, d |-> 30]
    /\ arg.start_date = [y |-> 2025, m |-> 1, d |-> 1]
    /\ Cardinality(ret.weeks) = 1
    /\ ret.row.start_date = <<"2", "0", "2", "4", "-", "1", "2", "-", "3", "0">>

\* C30: every run of the backup emitter takes place at the configured hour
\* and minute, local time of the default zone, and once per local day: the
\* first run after start-up and every repeating run.
C30_BackupAtConfiguredTime ==
    /\ last.op = "daily_backup_job" =>
          LocalMinuteOfDay(now) = BACKUP_HOUR * 60 + BACKUP_MINUTE
    /\ \A i, k \in 1..Len(log) : i # k => LocalDay(log[i].ts) # LocalDay(log[k].ts)

\* the rows the backup claims speak about, read from the tables directly
ProjectOf(pk) == CHOOSE p \in db.projects : p.id = pk
HasWeek(pk) == \E w \in db.weeks : w.project_id = pk
OwnerSet(p) == \E u \in db.users : u.id = p.owner_user_id
ActiveMembers(tenant_id, roles) ==
    {m \in db.memberships :
        m.tenant_id = tenant_id /\ m.status = "active" /\ m.role \in roles}
TgOf(user_id) == (CHOOSE u \in db.users : u.id = user_id).tg_user_id

\* C31: a backup run handles every active project and no other; a project
\* with a week gets the export of its most recently created week, sent to
\* the project owner if one is set, otherwise to an active member of the
\* project's tenant with an owner before an admin; a project without a week,
\* or with nobody to send to, gets nothing.
C31_BackupRouting ==
    /\ last.op = "daily_backup_job" =>
          \A p \in db.projects :
              p.status = "active" =>
                  \E r \in inflight :
                      /\ r.name = last.res
                      /\ \E k \in 1..Len(r.todo) : r.todo[k].id = p.id
    /\ \A r \in inflight : \A k \in 1..Len(r.todo) :
          ProjectOf(r.todo[k].id).status = "active"
    /\ last.op = "backup_project" =>
          LET p == ProjectOf(last.post)
              nobody == ~OwnerSet(p) /\ ActiveMembers(p.tenant_id, {"owner", "admin"}) = {}
          IN /\ p.status = "active"
             /\ (last.res = "skipped") <=> (~HasWeek(p.id) \/ nobody)
             /\ last.res # "skipped" =>
                   /\ \E w \in db.weeks :
                         /\ w.project_id = p.id /\ w.week_label = last.week_label
                         /\ \A w2 \in db.weeks :
                               w2.project_id = p.id => w2.created_at <= w.created_at
                   /\ OwnerSet(p) => last.job = TgOf(p.owner_user_id)
                   /\ ~OwnerSet(p) =>
                         \E m \in ActiveMembers(p.tenant_id, {"owner", "admin"}) :
                             /\ last.job = TgOf(m.user_id)
                             /\ m.role = "owner" \/ ActiveMembers(p.tenant_id, {"owner"}) = {}

\* project 1 without owner, two weeks, an active admin and an active owner in
\* its tenant: the newer week goes to the owner member
C31_Witness ==
    /\ last.op = "backup_project"
    /\ last.post = 1
    /\ last.res = "sent"
    /\ ~OwnerSet(ProjectOf(1))
    /\ Cardinality(ActiveMembers(1, {"owner", "admin"})) = 2
    /\ Cardinality({w \in db.weeks : w.project_id = 1}) = 2
    /\ last.job = 103
    /\ last.week_label = "W02-2025"

\* C32: a send that raises for one project is swallowed: the run goes on
\* with the projects that remain (or ends if none remains), no post, week,
\* job or table changes, and the repeating daily job stays pending.
C32_BackupFailureSwallowed ==
    [][(last'.op = "backup_project" /\ last'.res = "send_failed") =>
          /\ \E r \in inflight :
                /\ Head(r.todo).id = last'.post
                /\ inflight' = (inflight \ {r}) \cup
                      (IF Len(r.todo) > 1 THEN {BackupRun(r.name, Tail(r.todo))} ELSE {})
          /\ posts' = posts /\ week' = week /\ jobs' = jobs /\ db' = db
          /\ \E j \in jobs' : j.name = "daily-backup" /\ j.when >= now']_vars

\* the send for project 1 has failed and project 2 is next in the same run
C32_Witness ==
    /\ last.op = "backup_project"
    /\ last.res = "send_failed"
    /\ last.post = 1
    /\ \E r \in inflight : Head(r.todo).id = 2
    /\ \E j \in jobs : j.name = "daily-backup" /\ j.when >= now

\* C33: a scheduled or retry job that fires for a post whose status is
\* already published starts no send, so no second message and no second OK
\* log entry come from it.
C33_NoResendOfPublished ==
    [][\A j \in jobs :
          (publish_job(j) /\ posts[j.post].status = "published") =>
              inflight' = inflight]_vars

\* C34: when two delivery attempts for the same post overlap at the
\* transport call, no interleaving ends with the post in status failed with
\* a pending retry job although one of the attempts delivered it. The attempt
\* a was at the transport call while the other one returned with success (the
\* step before), and now a's call raises.
C34_OverlapKeepsPublished ==
    [][\A a \in inflight, e \in ErrLens :
          (/\ last.op = "send_ok"
           /\ last.post = a.post
           /\ send_fail(a, e)) =>
              ~(/\ posts'[a.post].status = "failed"
                /\ RetryJobs(jobs', a.post) # {})]_vars

\* C35: only approved posts are delivered: whatever started the Publisher
\* (scheduled job, retry job or publish-now), it starts no send for a post
\* whose status is draft or review at that time.
C35_OnlyApprovedSent ==
    [][\A n \in 1..Len(posts) :
          (/\ posts[n].status \in {"draft", "review"}
           /\ \/ publish_now(n)
              \/ \E j \in jobs : j.post = n /\ publish_job(j)) =>
              inflight' = inflight]_vars

\* C36: in every reachable state a post whose status is approved passes the
\* validator with zero defects, whatever edits and manual status changes
\* came before.
C36_ApprovedIsValid ==
    \A n \in 1..Len(posts) :
        posts[n].status = "approved" => validate_post(posts[n]) = <<>>

\* a post with a pending delivery job that is due within the clock horizon
PendingWithin(n) == \E j \in jobs : j.post = n /\ j.when <= MaxTime

\* C37: with a bound channel, a transport that fails only finitely often and
\* fair firing of pending jobs, every post that has a pending delivery job
\* eventually reaches status published (or the attempts the model has room
\* for are used up).
C37_PendingEventuallyPublished ==
    \A n \in PostNos :
        []((channel # NULL /\ PendingWithin(n)) =>
              <>(posts[n].status = "published" \/ ~AttemptRoom))

\* C38: a week freshly produced by generate_week has seven draft posts that
\* each fail validation because the cover is empty, and approve called
\* directly after the generation is rejected: no post becomes approved and
\* no job is created.
C38_FreshWeekRejected ==
    [][/\ (last'.op = "week_gen" /\ posts = <<>>) =>
            /\ Len(posts') = NPosts
            /\ \A i \in PostNos :
                  /\ posts'[i].status = "draft"
                  /\ posts'[i].cover_url = 0
                  /\ HasDefect(posts'[i])
       /\ (/\ last.op = "week_gen"
           /\ Len(posts) = NPosts
           /\ \A i \in PostNos : posts[i].cover_url = 0
           /\ last'.op = "week_approve") =>
            /\ last'.res = "defects"
            /\ posts' = posts
            /\ jobs' = jobs
            /\ \A i \in PostNos : posts'[i].status # "approved"]_vars

\* week created, drafts generated, approve refused: three requests in all
C38_Witness ==
    /\ last.op = "week_approve"
    /\ last.res = "defects"
    /\ ops = 3
    /\ Len(posts) = NPosts
    /\ \A i \in PostNos : posts[i].status = "draft" /\ posts[i].cover_url = 0
    /\ jobs = {}

\* the context row of a user, if there is one
CtxRows(d, user_id) == {r \in d.user_ctx : r.user_id = user_id}
CurrentProject(d, user_id) ==
    IF CtxRows(d, user_id) = {} THEN NULL
    ELSE (CHOOSE r \in CtxRows(d, user_id) : TRUE).current_project_pk

\* C39: after a user activates or selects a different project, the current
\* week label of that user's context is unset or is the label of a week
\* that exists for the newly selected project.
C39_SelectionConsistent ==
    [][\A u \in AccountUsers :
          (/\ last'.op \in {"activate_by_id_flow", "prj_select"}
           /\ last'.post = u
           /\ CurrentProject(db', u) # CurrentProject(db, u)) =>
              \A r \in CtxRows(db', u) :
                  \/ r.current_week_label = NoLabel
                  \/ \E w \in db'.weeks :
                        /\ w.project_id = r.current_project_pk
                        /\ w.week_label = r.current_week_label]_vars

\* the project a numeric id names
ProjectByPid(d, project_id) == {p \in d.projects : p.project_id = project_id}

\* C40: activating a project by its numeric id never lowers a role: a user
\* who is an active owner of the project's tenant is still its owner
\* afterwards, and an activation rejected because joining by id is closed
\* changes no membership and no user context.
C40_ActivationKeepsOwner ==
    [][\A u \in AccountUsers, pid \in TypedProjectIds :
          activate_by_id_flow(u, pid) =>
              /\ \A p \in ProjectByPid(db, pid) :
                    has_role(db.memberships, u, p.tenant_id, {"owner"}) =>
                        has_role(db'.memberships, u, p.tenant_id, {"owner"})
              /\ last'.res = "rejected" =>
                    /\ db'.memberships = db.memberships
                    /\ db'.user_ctx = db.user_ctx]_vars
====
